---- MODULE Spec2Model ----
(***************************************************************************)
(* A model of the halo2 extractor: the assignment recorder                 *)
(* (ExtractingAssignment, src/src/extraction.rs), the identity resolver    *)
(* (src/src/utils.rs) and the gate translator (print_gates).               *)
(*                                                                         *)
(* Text is modelled as a sequence of one-character strings, so that the    *)
(* textual operations of the source (str::replace, starts_with, the        *)
(* regular expressions) are computed character by character.               *)
(***************************************************************************)
EXTENDS Integers, Sequences, FiniteSets, TLC

VARIABLES
    circuit,         \* the circuit under extraction: the operations its synthesis uses
    target,          \* ExtractingAssignment.target
    current_region,  \* ExtractingAssignment.current_region (Option<String>)
    copy_count,      \* ExtractingAssignment.copy_count
    selectors,       \* ExtractingAssignment.selectors : col -> set of rows
    advice,          \* ExtractingAssignment.advice    : col -> row -> text
    fixed,           \* ExtractingAssignment.fixed     : col -> row -> text
    out,             \* standard output: the sequence of lines printed so far
    status,          \* "running", or "panicked" once an unwrap() has failed
    malformed,       \* history: an operation had to resolve a handle of unknown shape
    enabled,         \* history: the (col,row) pairs of the enable_selector events (known handles)
    lastFixed,       \* history: (col,row) -> last known value given to assign_fixed
    lastAdvice,      \* history: (col,row) -> last known value given to assign_advice
    copyLog,         \* history: the copy events observed, in order
    steps,           \* number of recorder operations performed
    prints,          \* number of print_grouping_props calls
    forced,          \* number of calls of a value thunk (to()) made so far
    gate_string,     \* print_gates: the gate list text (CircuitGates::to_string)
    gates_out,       \* print_gates: the lines printed
    gates_pc,        \* print_gates: "idle" | "ready" | "done"
    scope_text,      \* add_lean_scoping: the text at hand
    scope_prev,      \* add_lean_scoping: the text before the last application
    scope_n,         \* add_lean_scoping: number of applications made
    cm_height,       \* CellManager.height
    cm_columns,      \* CellManager.columns.len()
    cm_rows,         \* CellManager.rows: the counter of each row
    cm_num_unused_cells, \* CellManager.num_unused_cells
    cm_status,       \* "running", or "panicked" once an index was out of bounds
    cm_cells,        \* history: the (row index, column index) of the cells handed out
    cm_calls         \* number of CellManager calls made

recVars == <<circuit, target, current_region, copy_count, selectors, advice, fixed, out,
             status, malformed, enabled, lastFixed, lastAdvice, copyLog, steps, prints, forced>>
gateVars == <<gate_string, gates_out, gates_pc>>
scopeVars == <<scope_text, scope_prev, scope_n>>
\* what the recorder does not touch
cmVars == <<cm_height, cm_columns, cm_rows, cm_num_unused_cells, cm_status, cm_cells, cm_calls>>
otherVars == <<gateVars, scopeVars, cmVars>>
vars == <<circuit, target, current_region, copy_count, selectors, advice, fixed, out,
          status, malformed, enabled, lastFixed, lastAdvice, copyLog, steps, prints, forced,
          gate_string, gates_out, gates_pc, scope_text, scope_prev, scope_n,
          cm_height, cm_columns, cm_rows, cm_num_unused_cells, cm_status, cm_cells, cm_calls>>

(***************************************************************************)
(* Bounds of the model.                                                    *)
(***************************************************************************)
MaxRow == 2
MaxSteps == 3
MaxPrints == 2
MaxRegionSteps == 4

Cols == {0, 10}
Rows == 0..MaxRow

(***************************************************************************)
(* Text.                                                                   *)
(***************************************************************************)
T_Column == <<"C","o","l","u","m","n">>
T_index == <<"i","n","d","e","x",":">>
T_column_type == <<"c","o","l","u","m","n","_","t","y","p","e",":">>
T_Advice == <<"A","d","v","i","c","e">>
T_Instance == <<"I","n","s","t","a","n","c","e">>
T_Fixed == <<"F","i","x","e","d">>
T_Selector == <<"S","e","l","e","c","t","o","r","(">>
T_spInstance == <<" ","I","n","s","t","a","n","c","e">>
T_spcInstance == <<" ","c",".","I","n","s","t","a","n","c","e">>
T_lpInstance == <<"(","I","n","s","t","a","n","c","e">>
T_lpcInstance == <<"(","c",".","I","n","s","t","a","n","c","e">>
T_InstanceSp == <<"I","n","s","t","a","n","c","e"," ">>
T_cDot == <<"c",".">>
T_Zero == <<"0">>

DigitChars == <<"0","1","2","3","4","5","6","7","8","9">>
IsDigit(c) == c \in {"0","1","2","3","4","5","6","7","8","9"}
\* regex \s
IsSpace(c) == c \in {" ", "\t", "\n", "\r"}
DigitValue(c) == CHOOSE d \in 0..9 : DigitChars[d + 1] = c

\* the decimal rendering of a number (Display for usize)
RECURSIVE ToDec(_)
ToDec(n) == IF n < 10 THEN <<DigitChars[n + 1]>>
            ELSE ToDec(n \div 10) \o <<DigitChars[(n % 10) + 1]>>

\* str::starts_with
StartsWith(s, p) == Len(p) <= Len(s) /\ SubSeq(s, 1, Len(p)) = p

\* does the literal p occur in s at position i
LitAt(s, i, p) == i >= 1 /\ i + Len(p) - 1 <= Len(s) /\ SubSeq(s, i, i + Len(p) - 1) = p

\* str::replace: every non-overlapping occurrence of from, left to right
RECURSIVE ReplaceFrom(_, _, _, _)
ReplaceFrom(s, i, from, to) ==
    IF i > Len(s) THEN <<>>
    ELSE IF LitAt(s, i, from) THEN to \o ReplaceFrom(s, i + Len(from), from, to)
    ELSE <<s[i]>> \o ReplaceFrom(s, i + 1, from, to)
Replace(s, from, to) == ReplaceFrom(s, 1, from, to)

\* the end of the longest run of digits of s that starts at i (i - 1 if none)
RECURSIVE DigitsEnd(_, _)
DigitsEnd(s, i) == IF i <= Len(s) /\ IsDigit(s[i]) THEN DigitsEnd(s, i + 1) ELSE i - 1

\* usize::from_str on a string of digits
RECURSIVE DecValue(_)
DecValue(d) == IF Len(d) = 0 THEN 0
               ELSE 10 * DecValue(SubSeq(d, 1, Len(d) - 1)) + DigitValue(d[Len(d)])

SpaceAt(s, i) == i >= 1 /\ i <= Len(s) /\ IsSpace(s[i])

(***************************************************************************)
(* The identity resolver (utils.rs).                                       *)
(***************************************************************************)
\* Err(ExtractorError); index and column_type carry nothing
ExtractorError == [ok |-> FALSE, index |-> 0, column_type |-> <<>>]

ColumnTypeNames == <<T_Advice, T_Instance, T_Fixed>>

\* the regex  Column\s\{\sindex:\s(\d+),\scolumn_type:\s(Advice|Instance|Fixed)\s\}
\* matched at position i of s; k is the alternative taken for the column type
ColumnRegexAt(s, i, k) ==
    LET d1 == i + 16                 \* first digit
        d2 == DigitsEnd(s, d1)       \* last digit
        ty == d2 + 16                \* first character of the column type
        te == ty + Len(ColumnTypeNames[k])
    IN  /\ LitAt(s, i, T_Column)
        /\ SpaceAt(s, i + 6)
        /\ LitAt(s, i + 7, <<"{">>)
        /\ SpaceAt(s, i + 8)
        /\ LitAt(s, i + 9, T_index)
        /\ SpaceAt(s, i + 15)
        /\ d2 >= d1
        /\ LitAt(s, d2 + 1, <<",">>)
        /\ SpaceAt(s, d2 + 2)
        /\ LitAt(s, d2 + 3, T_column_type)
        /\ SpaceAt(s, d2 + 15)
        /\ LitAt(s, ty, ColumnTypeNames[k])
        /\ SpaceAt(s, te)
        /\ LitAt(s, te + 1, <<"}">>)

ColumnMatches(s) == {m \in (1..Len(s)) \X (1..3) : ColumnRegexAt(s, m[1], m[2])}

Halo2Column_new(index, column_type) == [ok |-> TRUE, index |-> index, column_type |-> column_type]

\* a resolver that falls back to column 0 when the text has an unknown shape
Halo2Column_try_from_defaulting(value) ==
    IF ColumnMatches(value) = {} THEN Halo2Column_new(0, T_Advice)
    ELSE LET m == CHOOSE m \in ColumnMatches(value) :
                      \A n \in ColumnMatches(value) : m[1] <= n[1]
             d1 == m[1] + 16
         IN  Halo2Column_new(DecValue(SubSeq(value, d1, DigitsEnd(value, d1))),
                             ColumnTypeNames[m[2]])

\* impl TryFrom<&str> for Halo2Column: the first (leftmost) match decides
Halo2Column_try_from(value) ==
    IF ColumnMatches(value) = {} THEN ExtractorError
    ELSE LET m == CHOOSE m \in ColumnMatches(value) :
                      \A n \in ColumnMatches(value) : m[1] <= n[1]
             d1 == m[1] + 16
         IN  Halo2Column_new(DecValue(SubSeq(value, d1, DigitsEnd(value, d1))),
                             ColumnTypeNames[m[2]])

\* the regex  Selector\((\d+),\s(.*)\)  matched at position i of s
SelectorRegexAt(s, i) ==
    LET d1 == i + 9
        d2 == DigitsEnd(s, d1)
    IN  /\ LitAt(s, i, T_Selector)
        /\ d2 >= d1
        /\ LitAt(s, d2 + 1, <<",">>)
        /\ SpaceAt(s, d2 + 2)
        /\ \E j \in (d2 + 3)..Len(s) :
              /\ s[j] = ")"
              /\ \A k \in (d2 + 3)..(j - 1) : s[k] # "\n"

SelectorMatches(s) == {i \in 1..Len(s) : SelectorRegexAt(s, i)}

\* impl TryFrom<&str> for Halo2Selector
Halo2Selector_try_from(value) ==
    IF SelectorMatches(value) = {} THEN ExtractorError
    ELSE LET i == CHOOSE i \in SelectorMatches(value) : \A n \in SelectorMatches(value) : i <= n
         IN  [ok |-> TRUE, index |-> DecValue(SubSeq(value, i + 9, DigitsEnd(value, i + 9))),
              column_type |-> <<>>]

\* Halo2Column::try_from(&Column<T>) and extract_selector_row(&Selector): a handle
\* is resolved by parsing its debug text; a handle is modelled as that text
Halo2Column_try_from_column(col) == Halo2Column_try_from(col)
extract_selector_row(selector) == Halo2Selector_try_from(selector)

(***************************************************************************)
(* Handles, as the debug texts the proof system renders for them.          *)
(***************************************************************************)
\* Debug of Column<T>
ColumnDebug(index, ty) ==
    T_Column \o <<" ","{"," ">> \o T_index \o <<" ">> \o ToDec(index) \o <<","," ">>
        \o T_column_type \o <<" ">> \o ty \o <<" ","}">>
\* Debug of Selector
SelectorDebug(index) == T_Selector \o ToDec(index) \o <<","," ","t","r","u","e",")">>
\* renderings of another library version, which the resolver does not know
ColumnDebugOther(index, ty) ==
    T_Column \o <<" ","{"," ">> \o T_index \o <<" ">> \o ToDec(index) \o <<","," ">>
        \o T_column_type \o <<" ">> \o ty \o <<" ","{"," ","p","h","a","s","e",":"," ","0"," ","}"," ","}">>
SelectorDebugOther(index) == <<"S","e","l","e","c","t","o","r"," ","{"," ">> \o ToDec(index) \o <<" ","}">>

(***************************************************************************)
(* The inputs of the recorder's operations.                                *)
(***************************************************************************)
Shapes == {"known", "other"}
TypeIds == 1..3
SelectorHandle(index, shape) ==
    IF shape = "known" THEN SelectorDebug(index) ELSE SelectorDebugOther(index)
ColumnHandle(index, k, shape) ==
    IF shape = "known" THEN ColumnDebug(index, ColumnTypeNames[k])
    ELSE ColumnDebugOther(index, ColumnTypeNames[k])

\* Value<VR>: a rendered field element, or Value::unknown()
V_Inst == <<"I","n","s","t","a","n","c","e"," ","0"," ","1">>
V_Sum == <<"1"," ","+"," ","(","I","n","s","t","a","n","c","e"," ","0"," ","1",")">>
RawValues == {T_Zero, V_Inst, V_Sum}
Known(text) == [known |-> TRUE, text |-> text]
Unknown == [known |-> FALSE, text |-> <<>>]

\* Option<String>: None is the empty sequence, Some(x) the sequence of x alone
RegionNames == {<<"r">>}
None == <<>>
Some(x) == <<x>>

\* the cells a copy constraint may name: (column type, column index, row)
CellA == <<1, 0, 0>>
CellI == <<2, 10, MaxRow>>
CellF == <<3, 10, 1>>

\* The circuit decides which operations the driver sends and with which arguments.
\* Each circuit of the model uses one family of operations on every cell of a small
\* grid; "handles" sends every operation with a handle of the known shape and with
\* one of another shape; "mixed" interleaves all the operations; "regions" only
\* enters and exits regions, in a longer sequence.
Circuits == {"selectors", "fixed", "advice", "copies", "misc", "handles", "mixed", "regions"}

\* (column index, row, shape of the handle)
SelectorInputs(c) ==
    CASE c = "selectors" -> {<<0, row, "known">> : row \in Rows} \cup {<<10, 0, "known">>}
      [] c = "handles" -> {<<10, 0, "known">>, <<0, 0, "other">>}
      [] c = "mixed" -> {<<10, MaxRow, "known">>}
      [] OTHER -> {}
InstanceInputs(c) ==
    CASE c = "misc" -> {<<10, MaxRow, "known">>}
      [] c = "handles" -> {<<10, 0, "known">>, <<0, 0, "other">>}
      [] OTHER -> {}
\* (column index, row, shape of the handle, value)
ValueGrid ==
    {<<col, row, "known", Known(t)>> : col \in {0}, row \in {0, 1}, t \in RawValues}
        \cup {<<10, 0, "known", Known(t)>> : t \in RawValues}
        \cup {<<0, 0, "known", Unknown>>}
ValueHandles ==
    {<<10, 0, "known", Known(V_Sum)>>, <<0, 0, "other", Known(V_Inst)>>,
     <<0, 0, "other", Unknown>>}
AdviceInputs(c) ==
    CASE c = "advice" -> ValueGrid
      [] c = "handles" -> ValueHandles
      [] c = "mixed" -> {<<0, 0, "known", Known(V_Inst)>>}
      [] OTHER -> {}
FixedInputs(c) ==
    CASE c = "fixed" -> ValueGrid
      [] c = "handles" -> ValueHandles
      [] c = "mixed" -> {<<0, 0, "known", Known(V_Sum)>>, <<0, 0, "known", Known(T_Zero)>>}
      [] OTHER -> {}
\* (left cell, right cell, shape of the left handle, shape of the right handle)
CopyInputs(c) ==
    CASE c = "copies" -> {<<l, r, "known", "known">> : l \in {CellA, CellI}, r \in {CellA, CellF}}
      [] c = "handles" -> {<<CellF, CellA, "known", "known">>, <<CellA, CellA, "known", "other">>,
                           <<CellA, CellA, "other", "known">>}
      [] c = "mixed" -> {<<CellA, CellF, "known", "known">>}
      [] OTHER -> {}
\* the operations without arguments that the circuit's synthesis uses
Uses(c, op) ==
    CASE c = "misc" -> TRUE
      [] c = "selectors" -> op \in {"enter_region", "exit_region"}
      [] c = "copies" -> op \in {"annotate_column"}
      [] c = "mixed" -> op \in {"enter_region", "exit_region", "get_challenge"}
      [] c = "regions" -> op \in {"enter_region", "exit_region"}
      [] OTHER -> FALSE

\* the resolver's answer for every handle of the model, computed once
ResolvedColumn ==
    [c \in Cols, k \in TypeIds, shape \in Shapes |->
        Halo2Column_try_from_column(ColumnHandle(c, k, shape))]
ResolvedSelector ==
    [c \in Cols, shape \in Shapes |-> extract_selector_row(SelectorHandle(c, shape))]

(***************************************************************************)
(* The recorder (ExtractingAssignment).                                    *)
(***************************************************************************)
\* a printed line: its kind, its numbers and its texts
Line(kind, args, txt) == [kind |-> kind, args |-> args, txt |-> txt]

\* BTreeMap::new()
EmptyMap == [x \in {} |-> 0]
\* BTreeMap::insert
MapInsert(m, key, val) == [x \in DOMAIN m \cup {key} |-> IF x = key THEN val ELSE m[x]]

\* BTreeMap::insert that keeps the entry a key already has
MapInsertKeepFirst(m, key, val) == IF key \in DOMAIN m THEN m ELSE MapInsert(m, key, val)

\* fn add_lean_scoping
add_lean_scoping(evaluated_expr) ==
    LET s == Replace(Replace(evaluated_expr, T_spInstance, T_spcInstance),
                     T_lpInstance, T_lpcInstance)
    IN  IF StartsWith(s, T_InstanceSp) THEN T_cDot \o s ELSE s

\* fn format_cell, after the unwrap: "{:?} {}" of the column type and the index
format_cell(parsed_column) == parsed_column.column_type \o <<" ">> \o ToDec(parsed_column.index)

\* fn set_selector
set_selector(sel, col, row) ==
    IF col \in DOMAIN sel THEN [sel EXCEPT ![col] = @ \cup {row}]
    ELSE MapInsert(sel, col, {row})

\* set_fixed that keeps the first value of a cell
set_fixed_keep_first(tbl, col, row, val) ==
    IF col \in DOMAIN tbl THEN [tbl EXCEPT ![col] = MapInsertKeepFirst(@, row, val)]
    ELSE MapInsert(tbl, col, MapInsert(EmptyMap, row, val))

\* fn set_fixed
set_fixed(tbl, col, row, val) ==
    IF col \in DOMAIN tbl THEN [tbl EXCEPT ![col] = MapInsert(@, row, val)]
    ELSE MapInsert(tbl, col, MapInsert(EmptyMap, row, val))

\* set_advice that keeps the first value of a cell
set_advice_keep_first(tbl, col, row, val) ==
    IF col \in DOMAIN tbl THEN [tbl EXCEPT ![col] = MapInsertKeepFirst(@, row, val)]
    ELSE MapInsert(tbl, col, MapInsert(EmptyMap, row, val))

\* fn set_advice
set_advice(tbl, col, row, val) ==
    IF col \in DOMAIN tbl THEN [tbl EXCEPT ![col] = MapInsert(@, row, val)]
    ELSE MapInsert(tbl, col, MapInsert(EmptyMap, row, val))

\* a failed unwrap(): the process panics and nothing else changes
Panic ==
    /\ status' = "panicked"
    /\ UNCHANGED <<circuit, target, current_region, copy_count, selectors, advice, fixed, out>>

StepBound(c) == IF c = "regions" THEN MaxRegionSteps ELSE MaxSteps
\* print_grouping_props is called once after synthesis; the driver of "mixed" calls
\* it again
PrintBound(c) == IF c = "mixed" THEN MaxPrints ELSE 1
CanStep == status = "running" /\ steps < StepBound(circuit)
Step == steps' = steps + 1
NoHistory == UNCHANGED <<malformed, enabled, lastFixed, lastAdvice, copyLog>>

\* no CellManager is at work
CellsAtRest ==
    /\ cm_height = 1
    /\ cm_columns = 0
    /\ cm_rows = <<0>>
    /\ cm_num_unused_cells = 0
    /\ cm_status = "running"
    /\ cm_cells = <<>>
    /\ cm_calls = 0

\* no text is handed to add_lean_scoping
ScopingAtRest == scope_text = <<>> /\ scope_prev = <<>> /\ scope_n = 0

\* ExtractingAssignment::new(target), and no gate list at hand
Init ==
    /\ circuit \in Circuits
    /\ target \in {"Constraints", "AdviceGenerator"}
    /\ current_region = None
    /\ copy_count = 0
    /\ selectors = EmptyMap
    /\ advice = EmptyMap
    /\ fixed = EmptyMap
    /\ out = <<>>
    /\ status = "running"
    /\ malformed = FALSE
    /\ enabled = {}
    /\ lastFixed = EmptyMap
    /\ lastAdvice = EmptyMap
    /\ copyLog = <<>>
    /\ steps = 0
    /\ prints = 0
    /\ forced = 0
    /\ gate_string = <<>>
    /\ gates_out = <<>>
    /\ gates_pc = "idle"
    /\ ScopingAtRest
    /\ CellsAtRest

\* fn enter_region
enter_region ==
    /\ CanStep
    /\ Uses(circuit, "enter_region")
    /\ \E x \in RegionNames :
          /\ out' = Append(out, Line("entered_region", <<>>, <<x>>))
          /\ current_region' = Some(x)
    /\ Step /\ NoHistory
    /\ UNCHANGED <<circuit, target, copy_count, selectors, advice, fixed, status, prints, forced>>
    /\ UNCHANGED otherVars

\* fn exit_region
exit_region ==
    /\ CanStep
    /\ Uses(circuit, "exit_region")
    /\ IF current_region = None
       THEN Panic
       ELSE /\ out' = Append(out, Line("exited_region", <<>>, <<current_region[1]>>))
            /\ current_region' = None
            /\ UNCHANGED <<circuit, target, copy_count, selectors, advice, fixed, status>>
    /\ Step /\ NoHistory
    /\ UNCHANGED <<prints, forced>>
    /\ UNCHANGED otherVars

\* fn enable_selector
enable_selector ==
    /\ CanStep
    /\ \E in \in SelectorInputs(circuit) :
          LET c == in[1]
              row == in[2]
              shape == in[3]
              parsed == ResolvedSelector[c, shape]
          IN  /\ IF parsed.ok
                 THEN /\ selectors' = set_selector(selectors, parsed.index, row)
                      /\ UNCHANGED <<circuit, target, current_region, copy_count, advice, fixed,
                                     out, status>>
                 ELSE Panic
              /\ malformed' = (malformed \/ shape = "other")
              /\ enabled' = IF shape = "known" THEN enabled \cup {<<c, row>>} ELSE enabled
    /\ Step
    /\ UNCHANGED <<lastFixed, lastAdvice, copyLog, prints, forced>>
    /\ UNCHANGED otherVars

\* fn query_instance: the placeholder it returns is no part of the recorder's state
query_instance ==
    /\ CanStep
    /\ \E in \in InstanceInputs(circuit) :
          LET c == in[1]
              shape == in[3]
              parsed == ResolvedColumn[c, 2, shape]
          IN  /\ IF parsed.ok
                 THEN UNCHANGED <<circuit, target, current_region, copy_count, selectors, advice,
                                  fixed, out, status>>
                 ELSE Panic
              /\ malformed' = (malformed \/ shape = "other")
    /\ Step
    /\ UNCHANGED <<enabled, lastFixed, lastAdvice, copyLog, prints, forced>>
    /\ UNCHANGED otherVars

\* a recorder that forces the thunk of assign_advice whatever the mode
assign_advice_forces_always(tgt) == 1
\* the calls of to() one assign_advice event makes: none in the arm
\* Target::Constraints, one (to().map(..)) in the arm Target::AdviceGenerator
assign_advice_forces(tgt) == IF tgt = "Constraints" THEN 0 ELSE 1
\* the calls of to() one assign_fixed event makes: to().map(..), in either mode
assign_fixed_forces(tgt) == 1

\* fn assign_advice
assign_advice ==
    /\ CanStep
    /\ \E in \in AdviceInputs(circuit) :
       LET c == in[1]
           row == in[2]
           shape == in[3]
           to == in[4]
       IN
          /\ IF target = "Constraints"
             THEN /\ UNCHANGED <<circuit, target, current_region, copy_count, selectors, advice,
                                 fixed, out, status>>
                  /\ UNCHANGED malformed
             ELSE IF ~to.known
             THEN /\ UNCHANGED <<circuit, target, current_region, copy_count, selectors, advice,
                                 fixed, out, status>>
                  /\ UNCHANGED malformed
             ELSE LET halo2_column == ResolvedColumn[c, 1, shape]
                  IN  /\ IF halo2_column.ok
                         THEN /\ advice' = set_advice(advice, halo2_column.index, row,
                                                      add_lean_scoping(to.text))
                              /\ UNCHANGED <<circuit, target, current_region, copy_count, selectors,
                                             fixed, out, status>>
                         ELSE Panic
                      /\ malformed' = (malformed \/ shape = "other")
          /\ lastAdvice' = IF to.known /\ shape = "known"
                           THEN MapInsert(lastAdvice, <<c, row>>, to.text)
                           ELSE lastAdvice
    /\ Step
    /\ forced' = forced + assign_advice_forces(target)
    /\ UNCHANGED <<enabled, lastFixed, copyLog, prints>>
    /\ UNCHANGED otherVars

\* fn assign_fixed
assign_fixed ==
    /\ CanStep
    /\ \E in \in FixedInputs(circuit) :
       LET c == in[1]
           row == in[2]
           shape == in[3]
           to == in[4]
       IN
          /\ IF ~to.known
             THEN /\ UNCHANGED <<circuit, target, current_region, copy_count, selectors, advice,
                                 fixed, out, status>>
                  /\ UNCHANGED malformed
             ELSE LET halo2_column == ResolvedColumn[c, 3, shape]
                  IN  /\ IF halo2_column.ok
                         THEN /\ fixed' = set_fixed(fixed, halo2_column.index, row,
                                                    add_lean_scoping(to.text))
                              /\ UNCHANGED <<circuit, target, current_region, copy_count, selectors,
                                             advice, out, status>>
                         ELSE Panic
                      /\ malformed' = (malformed \/ shape = "other")
          /\ lastFixed' = IF to.known /\ shape = "known"
                          THEN MapInsert(lastFixed, <<c, row>>, to.text)
                          ELSE lastFixed
    /\ Step
    /\ forced' = forced + assign_fixed_forces(target)
    /\ UNCHANGED <<enabled, lastAdvice, copyLog, prints>>
    /\ UNCHANGED otherVars

\* a counter that copy does not advance
copy_next_count_stuck(n) == n

\* the counter after fn copy has printed its predicate
copy_next_count(n) == n + 1

\* fn copy
copy ==
    /\ CanStep
    /\ \E in \in CopyInputs(circuit) :
          LET l == in[1]
              r == in[2]
              lshape == in[3]
              rshape == in[4]
              left == ResolvedColumn[l[2], l[1], lshape]
              right == ResolvedColumn[r[2], r[1], rshape]
          IN  /\ IF left.ok /\ right.ok
                 THEN /\ out' = Append(out, Line("copy", <<copy_count, l[3], r[3]>>,
                                                 <<format_cell(left), format_cell(right)>>))
                      /\ copy_count' = copy_next_count(copy_count)
                      /\ UNCHANGED <<circuit, target, current_region, selectors, advice, fixed, status>>
                 ELSE Panic
              /\ malformed' = (malformed \/ lshape = "other" \/ rshape = "other")
              /\ copyLog' = IF lshape = "known" /\ rshape = "known"
                            THEN Append(copyLog, <<l, r>>) ELSE copyLog
    /\ Step
    /\ UNCHANGED <<enabled, lastFixed, lastAdvice, prints, forced>>
    /\ UNCHANGED otherVars

\* a fill_from_row that assigns the fixed cell it is given
fill_from_row_assigning ==
    /\ CanStep
    /\ Uses(circuit, "fill_from_row")
    /\ fixed' = set_fixed(fixed, 0, 0, T_Zero)
    /\ Step /\ NoHistory
    /\ UNCHANGED <<circuit, target, current_region, copy_count, selectors, advice, out,
                   status, prints, forced>>
    /\ UNCHANGED otherVars

\* fn fill_from_row
fill_from_row ==
    /\ CanStep
    /\ Uses(circuit, "fill_from_row")
    /\ Step /\ NoHistory
    /\ UNCHANGED <<circuit, target, current_region, copy_count, selectors, advice, fixed, out,
                   status, prints, forced>>
    /\ UNCHANGED otherVars

\* fn push_namespace
push_namespace ==
    /\ CanStep
    /\ Uses(circuit, "push_namespace")
    /\ Step /\ NoHistory
    /\ UNCHANGED <<circuit, target, current_region, copy_count, selectors, advice, fixed, out,
                   status, prints, forced>>
    /\ UNCHANGED otherVars

\* fn pop_namespace
pop_namespace ==
    /\ CanStep
    /\ Uses(circuit, "pop_namespace")
    /\ Step /\ NoHistory
    /\ UNCHANGED <<circuit, target, current_region, copy_count, selectors, advice, fixed, out,
                   status, prints, forced>>
    /\ UNCHANGED otherVars

\* fn annotate_column
annotate_column ==
    /\ CanStep
    /\ Uses(circuit, "annotate_column")
    /\ out' = Append(out, Line("annotate_column", <<>>, <<>>))
    /\ Step /\ NoHistory
    /\ UNCHANGED <<circuit, target, current_region, copy_count, selectors, advice, fixed,
                   status, prints, forced>>
    /\ UNCHANGED otherVars

\* fn get_challenge: returns Value::unknown()
get_challenge ==
    /\ CanStep
    /\ Uses(circuit, "get_challenge")
    /\ out' = Append(out, Line("get_challenge", <<>>, <<>>))
    /\ Step /\ NoHistory
    /\ UNCHANGED <<circuit, target, current_region, copy_count, selectors, advice, fixed,
                   status, prints, forced>>
    /\ UNCHANGED otherVars

(***************************************************************************)
(* print_grouping_props.                                                   *)
(***************************************************************************)
T_true == <<"t","r","u","e">>
T_c == <<"c">>
T__c == <<"_","c">>
T_row == <<"r","o","w">>
T__ == <<"_">>

\* the elements of a set of numbers in ascending order (BTreeMap / BTreeSet iteration)
RECURSIVE Ascending(_)
Ascending(S) ==
    IF S = {} THEN <<>>
    ELSE LET m == CHOOSE x \in S : \A y \in S : x <= y
         IN  <<m>> \o Ascending(S \ {m})

\* BTreeSet::last
Last(S) == CHOOSE x \in S : \A y \in S : y <= x

\* def all_copy_constraints: the conjunction copy_0 c /\ ... /\ copy_{n-1} c, or true
AllCopyConstraintsLine(n) ==
    Line("all_copy_constraints", [i \in 1..n |-> i - 1],
         <<IF n = 0 THEN T__c ELSE T_c, IF n = 0 THEN T_true ELSE <<>>>>)

\* the loop over (0..=max_row).rev() and the trailing default arm
RECURSIVE SelectorLoop(_, _, _)
SelectorLoop(row_set, row, curr_val) ==
    IF row < 0 THEN <<Line("selector_default", <<curr_val>>, <<>>)>>
    ELSE LET new_val == IF row \in row_set THEN 1 ELSE 0
         IN  IF curr_val # new_val
             THEN <<Line("selector_arm", <<row + 1, curr_val>>, <<>>)>>
                      \o SelectorLoop(row_set, row - 1, new_val)
             ELSE SelectorLoop(row_set, row - 1, curr_val)

\* arms whose breakpoint is the row itself, not the row above it
RECURSIVE SelectorLoopOffByOne(_, _, _)
SelectorLoopOffByOne(row_set, row, curr_val) ==
    IF row < 0 THEN <<Line("selector_default", <<curr_val>>, <<>>)>>
    ELSE LET new_val == IF row \in row_set THEN 1 ELSE 0
         IN  IF curr_val # new_val
             THEN <<Line("selector_arm", <<row, curr_val>>, <<>>)>>
                      \o SelectorLoopOffByOne(row_set, row - 1, new_val)
             ELSE SelectorLoopOffByOne(row_set, row - 1, curr_val)
SelectorArmsOffByOne(row_set) ==
    IF row_set # {} THEN SelectorLoopOffByOne(row_set, Last(row_set), 0)
    ELSE <<Line("selector_default", <<0>>, <<>>)>>

\* the match arms of selector_func_col_<col>
SelectorArms(row_set) ==
    IF row_set # {} THEN SelectorLoop(row_set, Last(row_set), 0)
    ELSE <<Line("selector_default", <<0>>, <<>>)>>

\* for (col, row_set) in &self.selectors
RECURSIVE SelectorColumnDefs(_, _)
SelectorColumnDefs(sel, cols) ==
    IF cols = <<>> THEN <<>>
    ELSE <<Line("selector_func_col", <<Head(cols)>>, <<>>)>>
             \o SelectorArms(sel[Head(cols)])
             \o SelectorColumnDefs(sel, Tail(cols))

\* a dispatch that sends column col + 1 to the function of column col
SelectorFuncShifted(sel) ==
    <<Line("selector_func", <<>>, <<>>)>>
        \o [i \in 1..Cardinality(DOMAIN sel) |->
               Line("selector_func_arm", <<Ascending(DOMAIN sel)[i] + 1,
                                           Ascending(DOMAIN sel)[i]>>, <<>>)]
        \o <<Line("selector_func_default", <<0>>, <<>>)>>

\* def selector_func: | <col> => selector_func_col_<col> row ... | _ => 0
SelectorFunc(sel) ==
    <<Line("selector_func", <<>>, <<>>)>>
        \o [i \in 1..Cardinality(DOMAIN sel) |->
               Line("selector_func_arm", <<Ascending(DOMAIN sel)[i],
                                           Ascending(DOMAIN sel)[i]>>, <<>>)]
        \o <<Line("selector_func_default", <<0>>, <<>>)>>

\* for (row, value) in row_set: an arm for every value other than "0"
RECURSIVE FixedArms(_, _)
FixedArms(row_set, rows) ==
    IF rows = <<>> THEN <<Line("fixed_default", <<0>>, <<>>)>>
    ELSE (IF row_set[Head(rows)] # T_Zero
          THEN <<Line("fixed_arm", <<Head(rows)>>, <<row_set[Head(rows)]>>)>>
          ELSE <<>>)
         \o FixedArms(row_set, Tail(rows))

\* for (col, row_set) in &self.fixed
RECURSIVE FixedColumnDefs(_, _)
FixedColumnDefs(fx, cols) ==
    IF cols = <<>> THEN <<>>
    ELSE <<Line("fixed_func_col", <<Head(cols)>>, <<>>)>>
             \o FixedArms(fx[Head(cols)], Ascending(DOMAIN fx[Head(cols)]))
             \o FixedColumnDefs(fx, Tail(cols))

\* def fixed_func: | <col> => fixed_func_col_<col> row ... | _ => 0
FixedFunc(fx) ==
    <<Line("fixed_func", <<>>, <<IF Cardinality(DOMAIN fx) = 0 THEN T__ ELSE T_row>>)>>
        \o [i \in 1..Cardinality(DOMAIN fx) |->
               Line("fixed_func_arm", <<Ascending(DOMAIN fx)[i], Ascending(DOMAIN fx)[i]>>, <<>>)]
        \o <<Line("fixed_func_default", <<0>>, <<>>)>>

\* everything print_grouping_props prints, in order
GroupingProps(cc, sel, fx) ==
    <<AllCopyConstraintsLine(cc)>>
        \o SelectorColumnDefs(sel, Ascending(DOMAIN sel))
        \o SelectorFunc(sel)
        \o FixedColumnDefs(fx, Ascending(DOMAIN fx))
        \o FixedFunc(fx)

\* pub fn print_grouping_props(&self)
\* a print_grouping_props that uses up the copy-constraint counter
print_grouping_props_resetting ==
    /\ status = "running"
    /\ prints < PrintBound(circuit)
    /\ out' = out \o GroupingProps(copy_count, selectors, fixed)
    /\ prints' = prints + 1
    /\ copy_count' = 0
    /\ NoHistory
    /\ UNCHANGED <<circuit, target, current_region, selectors, advice, fixed,
                   status, steps, forced>>
    /\ UNCHANGED otherVars

print_grouping_props ==
    /\ status = "running"
    /\ prints < PrintBound(circuit)
    /\ out' = out \o GroupingProps(copy_count, selectors, fixed)
    /\ prints' = prints + 1
    /\ NoHistory
    /\ UNCHANGED <<circuit, target, current_region, copy_count, selectors, advice, fixed,
                   status, steps, forced>>
    /\ UNCHANGED otherVars

Next ==
    \/ enter_region
    \/ exit_region
    \/ enable_selector
    \/ query_instance
    \/ assign_advice
    \/ assign_fixed
    \/ copy
    \/ fill_from_row
    \/ push_namespace
    \/ pop_namespace
    \/ annotate_column
    \/ get_challenge
    \/ print_grouping_props

Spec == Init /\ [][Next]_vars

(***************************************************************************)
(* Reading the emitted definitions: a match is decided by its first arm    *)
(* that matches; the arm _+k matches every row >= k, the arm k the row k   *)
(* alone, the arm _ every row.                                             *)
(***************************************************************************)
\* the value of a definition the document does not hold
Undefined == 0 - 1
UndefinedText == <<"?">>

\* the first line of the given kind whose first number is n (0: there is none)
FirstLine(doc, kind, n) ==
    IF \E i \in 1..Len(doc) : doc[i].kind = kind /\ doc[i].args[1] = n
    THEN CHOOSE i \in 1..Len(doc) :
             /\ doc[i].kind = kind /\ doc[i].args[1] = n
             /\ \A j \in 1..(i - 1) : ~(doc[j].kind = kind /\ doc[j].args[1] = n)
    ELSE 0
\* the first line of the given kind (0: there is none)
FirstOfKind(doc, kind) ==
    IF \E i \in 1..Len(doc) : doc[i].kind = kind
    THEN CHOOSE i \in 1..Len(doc) :
             doc[i].kind = kind /\ \A j \in 1..(i - 1) : doc[j].kind # kind
    ELSE 0

RECURSIVE MatchSelectorRow(_, _, _)
MatchSelectorRow(doc, i, row) ==
    IF i > Len(doc) THEN Undefined
    ELSE IF doc[i].kind = "selector_arm"
         THEN IF row >= doc[i].args[1] THEN doc[i].args[2]
              ELSE MatchSelectorRow(doc, i + 1, row)
    ELSE IF doc[i].kind = "selector_default" THEN doc[i].args[1]
    ELSE Undefined

\* selector_func_col_<col> row
EvalSelectorCol(doc, col, row) ==
    LET p == FirstLine(doc, "selector_func_col", col)
    IN  IF p = 0 THEN Undefined ELSE MatchSelectorRow(doc, p + 1, row)

RECURSIVE MatchSelectorFunc(_, _, _, _)
MatchSelectorFunc(doc, i, col, row) ==
    IF i > Len(doc) THEN Undefined
    ELSE IF doc[i].kind = "selector_func_arm"
         THEN IF col = doc[i].args[1] THEN EvalSelectorCol(doc, doc[i].args[2], row)
              ELSE MatchSelectorFunc(doc, i + 1, col, row)
    ELSE IF doc[i].kind = "selector_func_default" THEN doc[i].args[1]
    ELSE Undefined

\* selector_func col row
EvalSelectorFunc(doc, col, row) ==
    LET p == FirstOfKind(doc, "selector_func")
    IN  IF p = 0 THEN Undefined ELSE MatchSelectorFunc(doc, p + 1, col, row)

RECURSIVE MatchFixedRow(_, _, _)
MatchFixedRow(doc, i, row) ==
    IF i > Len(doc) THEN UndefinedText
    ELSE IF doc[i].kind = "fixed_arm"
         THEN IF row = doc[i].args[1] THEN doc[i].txt[1]
              ELSE MatchFixedRow(doc, i + 1, row)
    ELSE IF doc[i].kind = "fixed_default" THEN ToDec(doc[i].args[1])
    ELSE UndefinedText

\* fixed_func_col_<col> row
EvalFixedCol(doc, col, row) ==
    LET p == FirstLine(doc, "fixed_func_col", col)
    IN  IF p = 0 THEN UndefinedText ELSE MatchFixedRow(doc, p + 1, row)

RECURSIVE MatchFixedFunc(_, _, _, _)
MatchFixedFunc(doc, i, col, row) ==
    IF i > Len(doc) THEN UndefinedText
    ELSE IF doc[i].kind = "fixed_func_arm"
         THEN IF col = doc[i].args[1] THEN EvalFixedCol(doc, doc[i].args[2], row)
              ELSE MatchFixedFunc(doc, i + 1, col, row)
    ELSE IF doc[i].kind = "fixed_func_default" THEN ToDec(doc[i].args[1])
    ELSE UndefinedText

\* fixed_func col row
EvalFixedFunc(doc, col, row) ==
    LET p == FirstOfKind(doc, "fixed_func")
    IN  IF p = 0 THEN UndefinedText ELSE MatchFixedFunc(doc, p + 1, col, row)

RECURSIVE MatchAdviceRow(_, _, _)
MatchAdviceRow(doc, i, row) ==
    IF i > Len(doc) THEN UndefinedText
    ELSE IF doc[i].kind = "advice_arm"
         THEN IF row = doc[i].args[1] THEN doc[i].txt[1]
              ELSE MatchAdviceRow(doc, i + 1, row)
    ELSE IF doc[i].kind = "advice_default" THEN ToDec(doc[i].args[1])
    ELSE UndefinedText

\* advice_func_col_<col> row
EvalAdviceCol(doc, col, row) ==
    LET p == FirstLine(doc, "advice_func_col", col)
    IN  IF p = 0 THEN UndefinedText ELSE MatchAdviceRow(doc, p + 1, row)

RECURSIVE MatchAdviceFunc(_, _, _, _)
MatchAdviceFunc(doc, i, col, row) ==
    IF i > Len(doc) THEN UndefinedText
    ELSE IF doc[i].kind = "advice_func_arm"
         THEN IF col = doc[i].args[1] THEN EvalAdviceCol(doc, doc[i].args[2], row)
              ELSE MatchAdviceFunc(doc, i + 1, col, row)
    ELSE IF doc[i].kind = "advice_func_default" THEN ToDec(doc[i].args[1])
    ELSE UndefinedText

\* advice_func col row (a text that is no value when the document holds no
\* definition of that name)
EvalAdviceFunc(doc, col, row) ==
    LET p == FirstOfKind(doc, "advice_func")
    IN  IF p = 0 THEN UndefinedText ELSE MatchAdviceFunc(doc, p + 1, col, row)

\* the step is a call of print_grouping_props, and what it printed
IsPrint == prints' = prints + 1
NewDoc == SubSeq(out', Len(out) + 1, Len(out'))

\* the columns and rows the emitted functions are queried at: those of the model,
\* and some beyond them
QueryCols == Cols \cup {1, 11}
QueryRows == 0..(MaxRow + 2)
LinesOfKind(doc, kind) == {i \in 1..Len(doc) : doc[i].kind = kind}

(***************************************************************************)
(* The claims.                                                             *)
(***************************************************************************)

\* C1: for every selector column and the rows enable_selector inserted for it, the
\* arms print_grouping_props emits for the column evaluate to 1 at each inserted
\* row and to 0 at every other row, up to and beyond the largest one.
C1_SelectorStepFunction ==
    [][IsPrint =>
         \A col \in Cols :
            (\E r \in Rows : <<col, r>> \in enabled) =>
               \A row \in QueryRows :
                  EvalSelectorCol(NewDoc, col, row)
                      = (IF <<col, row>> \in enabled THEN 1 ELSE 0)]_vars

\* a printed step function with three breakpoints: rows 0 and MaxRow active, row 1 not
C1_Witness ==
    /\ prints >= 1
    /\ {<<0, 0>>, <<0, MaxRow>>} \subseteq enabled
    /\ <<0, 1>> \notin enabled
    /\ Cardinality(LinesOfKind(out, "selector_arm")) >= 3


\* the text of a cell as a copy predicate names it: the column type and the index
CellText(cell) == ColumnTypeNames[cell[1]] \o <<" ">> \o ToDec(cell[2])
CopyLines(doc) == SelectSeq(doc, LAMBDA ln : ln.kind = "copy")

\* C2: in either mode, after any sequence of assign_fixed events, the fixed
\* functions print_grouping_props emits, evaluated at (col,row), give the
\* (scope-rewritten) last value written to the cell, and 0 for a cell never written.
C2_FixedRoundTrip ==
    [][IsPrint =>
         \A col \in QueryCols, row \in QueryRows :
            EvalFixedFunc(NewDoc, col, row)
                = (IF <<col, row>> \in DOMAIN lastFixed
                   THEN add_lean_scoping(lastFixed[<<col, row>>])
                   ELSE T_Zero)]_vars

\* a printed fixed table of two columns that holds a written "0" and other values
C2_Witness ==
    /\ prints >= 1
    /\ \E cell \in DOMAIN lastFixed : lastFixed[cell] = T_Zero
    /\ LinesOfKind(out, "fixed_arm") # {}
    /\ Cardinality(LinesOfKind(out, "fixed_func_arm")) = 2

\* C3: the copy predicates emitted are copy_0 .. copy_{N-1}, one per copy event and
\* in the order of the events, and the body of all_copy_constraints is the
\* conjunction of exactly those N predicates, or the constant true when N = 0.
C3_CopyPredicates ==
    [][/\ Len(CopyLines(out')) = Len(copyLog')
       /\ \A i \in 1..Len(copyLog') :
             /\ CopyLines(out')[i].args = <<i - 1, copyLog'[i][1][3], copyLog'[i][2][3]>>
             /\ CopyLines(out')[i].txt = <<CellText(copyLog'[i][1]), CellText(copyLog'[i][2])>>
       /\ IsPrint =>
             /\ NewDoc[1].kind = "all_copy_constraints"
             /\ NewDoc[1].args = [i \in 1..Len(copyLog) |-> i - 1]
             /\ (Len(copyLog) = 0) <=> (NewDoc[1].txt[2] = T_true)
             /\ (Len(copyLog) # 0) <=> (NewDoc[1].txt[2] = <<>>)]_vars

\* three copy events, then the aggregate over copy_0, copy_1 and copy_2
C3_Witness ==
    /\ Len(copyLog) = 3
    /\ \E i \in 1..Len(out) : out[i].kind = "all_copy_constraints" /\ out[i].args = <<0, 1, 2>>

\* the cells of a value table
TableCells(tbl) == {<<col, row>> \in QueryCols \X QueryRows :
                        col \in DOMAIN tbl /\ row \in DOMAIN tbl[col]}

\* C4: in Constraints mode the advice table is always empty; in AdviceGenerator
\* mode it holds, at each cell assigned, the scope-rewritten text of the last value
\* assigned to it, and no entry for a cell never assigned.
C4_AdviceByMode ==
    /\ target = "Constraints" => advice = EmptyMap
    /\ target = "AdviceGenerator" =>
          /\ \A col \in DOMAIN advice : DOMAIN advice[col] # {}
          /\ \A col \in DOMAIN advice : \A row \in DOMAIN advice[col] :
                <<col, row>> \in DOMAIN lastAdvice
          /\ \A cell \in DOMAIN lastAdvice :
                /\ cell \in TableCells(advice)
                /\ advice[cell[1]][cell[2]] = add_lean_scoping(lastAdvice[cell])

\* AdviceGenerator mode, three assignments, the last two to the same cell
C4_Witness ==
    /\ target = "AdviceGenerator"
    /\ steps = 3
    /\ Cardinality(DOMAIN lastAdvice) = 2
    /\ \E cell \in DOMAIN lastAdvice : advice[cell[1]][cell[2]] = T_lpcInstance \o <<" ","0"," ","1",")">>
                                          \/ advice[cell[1]][cell[2]] = T_cDot \o V_Inst

\* C7: a handle whose debug text has none of the known shapes makes the operation
\* that has to resolve it abort the run, and no table entry and no copy predicate
\* exists but for an event whose handles had a known shape (none for a defaulted
\* index).
C7_MalformedHandleAborts ==
    /\ malformed => status = "panicked"
    /\ \A col \in DOMAIN selectors : \A row \in selectors[col] : <<col, row>> \in enabled
    /\ \A col \in DOMAIN fixed : \A row \in DOMAIN fixed[col] : <<col, row>> \in DOMAIN lastFixed
    /\ \A col \in DOMAIN advice : \A row \in DOMAIN advice[col] : <<col, row>> \in DOMAIN lastAdvice
    /\ Len(CopyLines(out)) = Len(copyLog)
    /\ \A i \in 1..Len(copyLog) :
          CopyLines(out)[i].txt = <<CellText(copyLog[i][1]), CellText(copyLog[i][2])>>

\* the run has aborted on a malformed handle after it had recorded two events
C7_Witness ==
    /\ malformed
    /\ status = "panicked"
    /\ steps = 3
    /\ selectors # EmptyMap \/ fixed # EmptyMap \/ copy_count > 0

\* C8: selector_func is 0 at every row for a column with no active row (no
\* enable_selector event), and is the column's own step function for a column
\* with an active row.
C8_SelectorFuncDispatch ==
    [][IsPrint =>
         \A col \in QueryCols, row \in QueryRows :
            IF \E r \in Rows : <<col, r>> \in enabled
            THEN /\ EvalSelectorFunc(NewDoc, col, row) = EvalSelectorCol(NewDoc, col, row)
                 /\ EvalSelectorFunc(NewDoc, col, row) # Undefined
            ELSE EvalSelectorFunc(NewDoc, col, row) = 0]_vars

\* a printed selector_func that dispatches column 0 alone: column 10 has no active row
C8_Witness ==
    /\ prints >= 1
    /\ \E i \in 1..Len(out) : out[i].kind = "selector_func_arm" /\ out[i].args[1] = 0
    /\ Cardinality(LinesOfKind(out, "selector_func_arm")) = 1
    /\ \A r \in Rows : <<10, r>> \notin enabled

\* C9: in AdviceGenerator mode the emitted document renders the advice table:
\* the advice function evaluated at (col,row) gives the last value assign_advice
\* wrote, and 0 for a cell never written.
C9_AdviceRoundTrip ==
    [][IsPrint /\ target = "AdviceGenerator" =>
         \A col \in QueryCols, row \in QueryRows :
            EvalAdviceFunc(NewDoc, col, row)
                = (IF <<col, row>> \in DOMAIN lastAdvice
                   THEN add_lean_scoping(lastAdvice[<<col, row>>])
                   ELSE T_Zero)]_vars


(***************************************************************************)
(* The gate translator (print_gates).                                      *)
(***************************************************************************)
T_cSelectorSp == <<"c",".","S","e","l","e","c","t","o","r"," ">>
T_SpRow == <<" ","r","o","w">>
T_SpRowPlus == <<" ","(","r","o","w"," ","+"," ">>
T_ASp == <<"A"," ">>
T_ISp == <<"I"," ">>
T_FSp == <<"F"," ">>
T_cAdviceSp == <<"c",".","A","d","v","i","c","e"," ">>
T_cInstanceSp == <<"c",".","I","n","s","t","a","n","c","e"," ">>
T_cFixedSp == <<"c",".","F","i","x","e","d"," ">>
T_PlusZero == <<" ","+"," ","0">>

\* str::contains(char)
Contains(s, ch) == \E i \in 1..Len(s) : s[i] = ch

\* the position of the first line feed of s (0: there is none)
FirstLineFeed(s) ==
    IF Contains(s, "\n")
    THEN CHOOSE i \in 1..Len(s) : s[i] = "\n" /\ \A j \in 1..(i - 1) : s[j] # "\n"
    ELSE 0

\* str::lines: the lines of s without their terminators; a final line feed ends the
\* last line and starts no empty one
RECURSIVE Lines(_)
Lines(s) ==
    IF s = <<>> THEN <<>>
    ELSE LET nl == FirstLineFeed(s)
             line == IF nl = 0 THEN s ELSE SubSeq(s, 1, nl - 1)
             rest == IF nl = 0 THEN <<>> ELSE SubSeq(s, nl + 1, Len(s))
         IN  <<IF line # <<>> /\ line[Len(line)] = "\r"
               THEN SubSeq(line, 1, Len(line) - 1) ELSE line>> \o Lines(rest)

\* selector_regex.replace_all(gate, "c.Selector $column row"), for S(?P<column>\d+)
RECURSIVE ReplaceSelectors(_, _)
ReplaceSelectors(s, i) ==
    IF i > Len(s) THEN <<>>
    ELSE LET d2 == DigitsEnd(s, i + 1)
         IN  IF s[i] = "S" /\ d2 >= i + 1
             THEN T_cSelectorSp \o SubSeq(s, i + 1, d2) \o T_SpRow \o ReplaceSelectors(s, d2 + 1)
             ELSE <<s[i]>> \o ReplaceSelectors(s, i + 1)

\* the end of the match of (?P<type>[AIF])(?P<column>\d+)@(?P<row>-?\d+) at i (0: no match)
CellRefEnd(s, i) ==
    LET c2 == DigitsEnd(s, i + 1)
        r1 == IF c2 + 2 <= Len(s) /\ s[c2 + 2] = "-" THEN c2 + 3 ELSE c2 + 2
        r2 == DigitsEnd(s, r1)
    IN  IF /\ s[i] \in {"A", "I", "F"}
           /\ c2 >= i + 1
           /\ c2 + 1 <= Len(s) /\ s[c2 + 1] = "@"
           /\ r2 >= r1
        THEN r2 ELSE 0

\* cell_ref_regex.replace_all(.., "$type $column (row + $row)")
RECURSIVE ReplaceCellRefs(_, _)
ReplaceCellRefs(s, i) ==
    IF i > Len(s) THEN <<>>
    ELSE LET e == CellRefEnd(s, i)
             c2 == DigitsEnd(s, i + 1)
         IN  IF e # 0
             THEN <<s[i], " ">> \o SubSeq(s, i + 1, c2) \o T_SpRowPlus
                      \o SubSeq(s, c2 + 2, e) \o <<")">> \o ReplaceCellRefs(s, e + 1)
             ELSE <<s[i]>> \o ReplaceCellRefs(s, i + 1)

\* the expression s that print_gates builds from a gate line
GateExpression(gate) ==
    Replace(Replace(Replace(Replace(Replace(
        ReplaceCellRefs(ReplaceSelectors(gate, 1), 1),
        T_ASp, T_cAdviceSp), T_ISp, T_cInstanceSp), T_FSp, T_cFixedSp),
        <<"@">>, <<" ">>), T_PlusZero, <<>>)

\* if s.starts_with('-') { s.strip_prefix('-').unwrap() } else { &s }
StripNegation(s) == IF StartsWith(s, <<"-">>) THEN Tail(s) ELSE s

\* a filter that only drops the lines that end with a colon
GateStringsEndsWithColon(text) ==
    SelectSeq(Lines(text), LAMBDA x : ~(x # <<>> /\ x[Len(x)] = ":"))

\* gate_string.lines().filter(|x| !x.contains(':'))
GateStrings(text) == SelectSeq(Lines(text), LAMBDA x : ~Contains(x, ":"))

\* everything print_gates prints, in order
GateLines(text) ==
    LET gate_strings == GateStrings(text)
        n == Len(gate_strings)
    IN  <<Line("gates_header", <<>>, <<>>)>>
            \o [i \in 1..n |->
                   Line("gate", <<i - 1>>, <<StripNegation(GateExpression(gate_strings[i]))>>)]
            \o <<IF n = 0 THEN Line("all_gates", <<>>, <<T__c, T_true>>)
                 ELSE Line("all_gates", [i \in 1..n |-> i - 1], <<<<>>, <<>>>>)>>

\* pub fn print_gates(gates: CircuitGates)
print_gates ==
    /\ gates_pc = "ready"
    /\ gates_out' = GateLines(gate_string)
    /\ gates_pc' = "done"
    /\ UNCHANGED gate_string
    /\ UNCHANGED recVars
    /\ UNCHANGED scopeVars
    /\ UNCHANGED cmVars

(***************************************************************************)
(* Gate lists: the text CircuitGates::to_string() hands to print_gates.    *)
(* A polynomial is a tree; the proof system prints it with S<col> for a    *)
(* selector, <K><col>@<off> for a cell, "0", "1" or 0x<hex> for a          *)
(* constant, and parentheses around an operand that holds a space.         *)
(***************************************************************************)
MaxLines == 2
\* the modulus of the field the polynomials are evaluated in
Modulus == 3

Sel(col) == <<"sel", col>>
Cell(k, col, off) == <<"cell", k, col, off>>
Const(n) == <<"const", n>>
Neg(a) == <<"neg", a>>
Sum(a, b) == <<"sum", a, b>>
Prod(a, b) == <<"prod", a, b>>

\* the cells and the selector the polynomials of the model are built from
Atoms == <<Sel(0), Cell(1, 1, 0), Cell(1, 2, 0 - 1), Cell(3, 10, 1)>>
S0 == Atoms[1]
A1 == Atoms[2]
A2 == Atoms[3]
F10 == Atoms[4]

Polynomials ==
    << A1,
       Prod(S0, Sum(A1, Neg(A2))),
       Neg(A1),
       Sum(Neg(A1), A2),
       Sum(A1, A2),
       Neg(Sum(A1, A2)),
       Prod(Neg(A1), F10),
       Prod(A1, F10),
       Sum(A2, Const(2)),
       Prod(S0, Sum(F10, Const(1))) >>

KindLetters == <<"A", "I", "F">>
IntText(n) == IF n < 0 THEN <<"-">> \o ToDec(0 - n) ELSE ToDec(n)
ConstText(n) == IF n < 2 THEN ToDec(n) ELSE <<"0", "x">> \o ToDec(n)
Parens(t) == IF Contains(t, " ") THEN <<"(">> \o t \o <<")">> ELSE t

\* the proof system's rendering of a polynomial
RECURSIVE Render(_)
Render(e) ==
    CASE e[1] = "sel" -> <<"S">> \o ToDec(e[2])
      [] e[1] = "cell" -> <<KindLetters[e[2]]>> \o ToDec(e[3]) \o <<"@">> \o IntText(e[4])
      [] e[1] = "const" -> ConstText(e[2])
      [] e[1] = "neg" -> <<"-">> \o Parens(Render(e[2]))
      [] e[1] = "sum" ->
            IF StartsWith(Render(e[3]), <<"-">>)
            THEN Render(e[2]) \o <<" ", "-", " ">> \o Tail(Render(e[3]))
            ELSE Render(e[2]) \o <<" ", "+", " ">> \o Render(e[3])
      [] e[1] = "prod" -> Parens(Render(e[2])) \o <<" ", "*", " ">> \o Parens(Render(e[3]))

\* the lines a gate list is made of: the name of a gate, the polynomials (bare, and
\* one indented as a constraint of a named gate is), and the closing count
T_GateName == <<"g","a","t","e",":">>
T_Total == <<"T","o","t","a","l"," ","g","a","t","e","s",":"," ","1">>
GateListLines ==
    {Render(Polynomials[k]) : k \in 1..Len(Polynomials)}
        \cup {<<" ", " ">> \o Render(Polynomials[2]), T_GateName, T_Total}

RECURSIVE JoinLines(_)
JoinLines(ls) == IF ls = <<>> THEN <<>> ELSE Head(ls) \o <<"\n">> \o JoinLines(Tail(ls))

\* the gate lists of at most MaxLines lines
GateLists ==
    {JoinLines(ls) : ls \in UNION {[1..n -> GateListLines] : n \in 0..MaxLines}}

\* a finalized gate list, and a recorder that plays no part
InitGates ==
    /\ gate_string \in GateLists
    /\ gates_out = <<>>
    /\ gates_pc = "ready"
    /\ ScopingAtRest
    /\ CellsAtRest
    /\ circuit = "misc"
    /\ target = "Constraints"
    /\ current_region = None
    /\ copy_count = 0
    /\ selectors = EmptyMap
    /\ advice = EmptyMap
    /\ fixed = EmptyMap
    /\ out = <<>>
    /\ status = "running"
    /\ malformed = FALSE
    /\ enabled = {}
    /\ lastFixed = EmptyMap
    /\ lastAdvice = EmptyMap
    /\ copyLog = <<>>
    /\ steps = MaxSteps
    /\ prints = MaxPrints
    /\ forced = 0

NextGates == print_gates

SpecGates == InitGates /\ [][NextGates]_vars

(***************************************************************************)
(* Reading a gate predicate: the polynomial written in the target syntax,  *)
(* and its value under an assignment of the cells.                         *)
(***************************************************************************)
Accessors == <<T_cAdviceSp, T_cInstanceSp, T_cFixedSp>>
TargetParens(e, t) == IF Contains(Render(e), " ") THEN <<"(">> \o t \o <<")">> ELSE t

\* the polynomial in the target syntax: c.Selector <col> row for a selector, the
\* accessor applied to <col> and (row + <off>) for a cell ((row) when <off> is 0),
\* and every other token as the gate list has it
RECURSIVE Target(_)
Target(e) ==
    CASE e[1] = "sel" -> T_cSelectorSp \o ToDec(e[2]) \o T_SpRow
      [] e[1] = "cell" ->
            Accessors[e[2]] \o ToDec(e[3])
                \o (IF e[4] = 0 THEN <<" ", "(", "r", "o", "w", ")">>
                    ELSE T_SpRowPlus \o IntText(e[4]) \o <<")">>)
      [] e[1] = "const" -> ConstText(e[2])
      [] e[1] = "neg" -> <<"-">> \o TargetParens(e[2], Target(e[2]))
      [] e[1] = "sum" ->
            IF StartsWith(Render(e[3]), <<"-">>)
            THEN Target(e[2]) \o <<" ", "-", " ">> \o Tail(Target(e[3]))
            ELSE Target(e[2]) \o <<" ", "+", " ">> \o Target(e[3])
      [] e[1] = "prod" ->
            TargetParens(e[2], Target(e[2])) \o <<" ", "*", " ">>
                \o TargetParens(e[3], Target(e[3]))

PolyIds == 1..Len(Polynomials)
RenderedTexts == [k \in PolyIds |-> Render(Polynomials[k])]
TargetTexts == [k \in PolyIds |-> Target(Polynomials[k])]

\* a text without its leading spaces
RECURSIVE TrimStart(_)
TrimStart(t) == IF t # <<>> /\ t[1] = " " THEN TrimStart(Tail(t)) ELSE t

\* the polynomial a target-syntax text denotes, with or without parentheses
\* around the whole of it (0: none of the model's polynomials)
ParsePoly(t) ==
    LET u == TrimStart(t)
        hit == {k \in PolyIds : TargetTexts[k] = u \/ <<"(">> \o TargetTexts[k] \o <<")">> = u}
    IN  IF hit = {} THEN 0 ELSE CHOOSE k \in hit : TRUE

\* the polynomial a line of the gate list renders (0: none of the model's)
SourcePoly(line) ==
    LET hit == {k \in PolyIds : RenderedTexts[k] = TrimStart(line)}
    IN  IF hit = {} THEN 0 ELSE CHOOSE k \in hit : TRUE

Assignments == [1..Len(Atoms) -> 0..(Modulus - 1)]
AtomId(e) == CHOOSE i \in 1..Len(Atoms) : Atoms[i] = e

\* the value of a polynomial in the field of integers modulo Modulus
RECURSIVE Value(_, _)
Value(e, env) ==
    CASE e[1] \in {"sel", "cell"} -> env[AtomId(e)]
      [] e[1] = "const" -> e[2] % Modulus
      [] e[1] = "neg" -> (Modulus - Value(e[2], env)) % Modulus
      [] e[1] = "sum" -> (Value(e[2], env) + Value(e[3], env)) % Modulus
      [] e[1] = "prod" -> (Value(e[2], env) * Value(e[3], env)) % Modulus

\* the assignments under which a polynomial is 0
Zeros == [k \in PolyIds |-> {env \in Assignments : Value(Polynomials[k], env) = 0}]

\* the lines of a text, by scanning it once: a line feed ends a line
RECURSIVE Segments(_, _, _)
Segments(s, i, cur) ==
    IF i > Len(s) THEN (IF cur = <<>> THEN <<>> ELSE <<cur>>)
    ELSE IF s[i] = "\n" THEN <<cur>> \o Segments(s, i + 1, <<>>)
    ELSE Segments(s, i + 1, Append(cur, s[i]))
\* the lines of the gate list that hold no colon, in their order
BareLines == SelectSeq(Segments(gate_string, 1, <<>>), LAMBDA x : \A i \in 1..Len(x) : x[i] # ":")
GatePredicates == SelectSeq(gates_out, LAMBDA ln : ln.kind = "gate")

\* C5: print_gates emits one predicate for each line without a colon and none for a
\* line with one; the k predicates are gate_0 .. gate_{k-1} in the order of their
\* lines, all_gates is the conjunction of exactly those, and for k = 0 it is the
\* trivially true predicate.
C5_GateFiltering ==
    gates_pc = "done" =>
        /\ Len(GatePredicates) = Len(BareLines)
        /\ \A i \in 1..Len(BareLines) :
              /\ GatePredicates[i].args = <<i - 1>>
              /\ GatePredicates[i].txt = <<StripNegation(GateExpression(BareLines[i]))>>
        /\ gates_out[Len(gates_out)].kind = "all_gates"
        /\ gates_out[Len(gates_out)].args = [i \in 1..Len(BareLines) |-> i - 1]
        /\ (Len(BareLines) = 0) <=> (gates_out[Len(gates_out)].txt[2] = T_true)
        /\ Cardinality(LinesOfKind(gates_out, "all_gates")) = 1

\* a gate list of an annotated line and a polynomial: one predicate, gate_0
C5_Witness ==
    /\ gates_pc = "done"
    /\ Len(Segments(gate_string, 1, <<>>)) = 2
    /\ Len(BareLines) = 1
    /\ Len(GatePredicates) = 1

\* C6: for a line built from selector tokens, cell references, constants and field
\* operators, the predicate print_gates emits is the polynomial in the target
\* syntax: each S<col> and each cell reference rewritten, no other token changed.
\* (Lines that begin with '-' are left to C10.)
C6_GateRewriting ==
    gates_pc = "done" =>
        \A i \in 1..Len(BareLines) :
            (SourcePoly(BareLines[i]) # 0 /\ ~StartsWith(BareLines[i], <<"-">>)) =>
                TrimStart(GatePredicates[i].txt[1]) = TargetTexts[SourcePoly(BareLines[i])]

\* C10: when print_gates strips a leading '-', the stripped expression is 0 under
\* exactly the assignments under which the original expression is 0.
C10_StripNegationPreserves ==
    gates_pc = "done" =>
        \A i \in 1..Len(BareLines) :
            LET s == GateExpression(BareLines[i])
                emitted == GatePredicates[i].txt[1]
            IN  (StartsWith(s, <<"-">>) /\ ParsePoly(s) # 0 /\ ParsePoly(emitted) # 0) =>
                    Zeros[ParsePoly(s)] = Zeros[ParsePoly(emitted)]

(***************************************************************************)
(* The elision of zero row offsets.                                        *)
(***************************************************************************)
T_RowPlusZero == <<"(","r","o","w"," ","+"," ","0",")">>
T_RowOnly == <<"(","r","o","w",")">>

\* the rewritten line before anything is elided from it
Unelided(gate) ==
    Replace(Replace(Replace(Replace(
        ReplaceCellRefs(ReplaceSelectors(gate, 1), 1),
        T_ASp, T_cAdviceSp), T_ISp, T_cInstanceSp), T_FSp, T_cFixedSp),
        <<"@">>, <<" ">>)
\* a text with its zero row offsets elided, and nothing else
ElideZeroOffsets(s) == Replace(s, T_RowPlusZero, T_RowOnly)

\* C11: the elision of "+ 0" in print_gates removes only the zero row offsets of
\* the rewritten cell references; every other term of the line (an added constant
\* whose text begins with 0, say) is left as it was.
C11_ElisionOnlyZeroOffsets ==
    gates_pc = "done" =>
        \A i \in 1..Len(BareLines) :
            GatePredicates[i].txt[1]
                = StripNegation(ElideZeroOffsets(Unelided(BareLines[i])))

\* C12: nothing of the document is emitted before synthesis has succeeded: when a
\* recorder operation has failed fatally, no line (no copy predicate, no
\* definition) has been emitted up to that point. (prints = 0: the failure is one
\* of synthesis, before print_grouping_props is called.)
\* The comment lines that mark a region, an annotation or a challenge are not counted.
C12_NothingEmittedOnFailure ==
    (status = "panicked" /\ prints = 0) => LinesOfKind(out, "copy") = {}

(***************************************************************************)
(* Regions.                                                                *)
(***************************************************************************)
\* the regions entered and not yet exited, counted from the markers printed
OpenRegions ==
    Cardinality(LinesOfKind(out, "entered_region"))
        - Cardinality(LinesOfKind(out, "exited_region"))

\* C13: exit_region fails fatally when no region is active, and does not fail
\* when it is matched by an earlier enter_region that has not been exited yet.
C13_ExitRegionBalanced ==
    [][exit_region => (status' = "panicked" <=> OpenRegions = 0)]_vars

(***************************************************************************)
(* Value thunks.                                                           *)
(***************************************************************************)
\* C14: in Constraints mode assign_advice never forces its value thunk; in
\* AdviceGenerator mode it forces it exactly once per event; assign_fixed forces
\* its thunk exactly once per event in either mode.
C14_ThunkForcing ==
    [][/\ (assign_advice /\ target = "Constraints") => forced' = forced
       /\ (assign_advice /\ target = "AdviceGenerator") => forced' = forced + 1
       /\ assign_fixed => forced' = forced + 1]_vars

\* in Constraints mode an advice cell and a fixed cell were assigned, and only the
\* thunk of the fixed cell was forced
C14_Witness ==
    /\ target = "Constraints"
    /\ lastAdvice # EmptyMap
    /\ lastFixed # EmptyMap
    /\ forced = 1
    /\ steps = 2

(***************************************************************************)
(* Operations that record nothing.                                         *)
(***************************************************************************)
\* C15: enter_region, exit_region, fill_from_row, push_namespace, pop_namespace,
\* annotate_column, get_challenge and query_instance leave the selector table, the
\* fixed table, the advice table and the copy-constraint counter unchanged.
C15_TablesUntouched ==
    [][(\/ enter_region \/ exit_region \/ fill_from_row \/ push_namespace
        \/ pop_namespace \/ annotate_column \/ get_challenge \/ query_instance)
       => UNCHANGED <<selectors, fixed, advice, copy_count>>]_vars

\* a region is entered after a selector was enabled and a copy was recorded
C15_Witness ==
    /\ selectors # EmptyMap
    /\ copy_count = 1
    /\ out # <<>>
    /\ out[Len(out)].kind = "entered_region"

(***************************************************************************)
(* The scoping rewriter on its own: add_lean_scoping applied to a text,    *)
(* and again to its result.                                                *)
(***************************************************************************)
MaxTokens == 3
MaxApply == 2

\* what a rendered value is made of: references to the instance column, bare and
\* qualified, a constant, operators, parentheses, and another identifier
T_Instances == <<"I","n","s","t","a","n","c","e","s">>
ScopingTokens ==
    {V_Inst, T_cDot \o V_Inst, T_Instances, <<"1">>, <<" ", "+", " ">>, <<" ">>, <<"(">>, <<")">>}

RECURSIVE Concat(_)
Concat(ts) == IF ts = <<>> THEN <<>> ELSE Head(ts) \o Concat(Tail(ts))
ScopingTexts == {Concat(ts) : ts \in UNION {[1..n -> ScopingTokens] : n \in 0..MaxTokens}}

\* the recorder and the gate translator play no part
RecorderAtRest ==
    /\ circuit = "misc"
    /\ target = "Constraints"
    /\ current_region = None
    /\ copy_count = 0
    /\ selectors = EmptyMap
    /\ advice = EmptyMap
    /\ fixed = EmptyMap
    /\ out = <<>>
    /\ status = "running"
    /\ malformed = FALSE
    /\ enabled = {}
    /\ lastFixed = EmptyMap
    /\ lastAdvice = EmptyMap
    /\ copyLog = <<>>
    /\ steps = MaxSteps
    /\ prints = MaxPrints
    /\ forced = 0
GatesAtRest == gate_string = <<>> /\ gates_out = <<>> /\ gates_pc = "idle"

InitScoping ==
    /\ scope_text \in ScopingTexts
    /\ scope_prev = <<>>
    /\ scope_n = 0
    /\ RecorderAtRest
    /\ GatesAtRest
    /\ CellsAtRest

\* Self::add_lean_scoping(text)
apply_scoping ==
    /\ scope_n < MaxApply
    /\ scope_text' = add_lean_scoping(scope_text)
    /\ scope_prev' = scope_text
    /\ scope_n' = scope_n + 1
    /\ UNCHANGED recVars
    /\ UNCHANGED gateVars
    /\ UNCHANGED cmVars

NextScoping == apply_scoping
SpecScoping == InitScoping /\ [][NextScoping]_vars

\* a bare reference Instance <idx> <row> begins at i: at the start of the text,
\* after a space or after an opening parenthesis
BareReferenceAt(s, i) ==
    /\ LitAt(s, i, T_InstanceSp)
    /\ i = 1 \/ s[i - 1] \in {" ", "("}
    /\ LET d1 == DigitsEnd(s, i + 9)
       IN  /\ d1 >= i + 9
           /\ d1 + 2 <= Len(s)
           /\ s[d1 + 1] = " "
           /\ IsDigit(s[d1 + 2])

\* the text with each bare reference qualified, and nothing else changed
RECURSIVE Qualified(_, _)
Qualified(s, i) ==
    IF i > Len(s) THEN <<>>
    ELSE (IF BareReferenceAt(s, i) THEN T_cDot ELSE <<>>) \o <<s[i]>> \o Qualified(s, i + 1)

\* C16: add_lean_scoping is idempotent, and it qualifies each bare reference
\* Instance <idx> <row> (at the start of the text, after a space or after an
\* opening parenthesis) exactly once and leaves every other token as it was.
C16_ScopingIdempotentExact ==
    /\ scope_n = 2 => scope_text = scope_prev
    /\ scope_n = 1 => scope_text = Qualified(scope_prev, 1)

(***************************************************************************)
(* print_grouping_props called again.                                      *)
(***************************************************************************)
\* C17: print_grouping_props is read-only: it changes neither the tables nor the
\* copy-constraint counter, what it prints is decided by them alone, so that a
\* second call prints the same text again, and the recorder is left as it was for
\* the events that follow.
C17_PrintReadOnly ==
    [][IsPrint =>
          /\ UNCHANGED <<selectors, fixed, advice, copy_count>>
          /\ UNCHANGED <<target, current_region, status, steps>>
          /\ NewDoc # <<>>
          /\ NewDoc = GroupingProps(copy_count', selectors', fixed')]_vars

\* two calls in a row after a copy and an enabled selector: the output is the copy
\* predicate followed by the same definitions twice
C17_Witness ==
    /\ prints = 2
    /\ copy_count = 1
    /\ selectors # EmptyMap
    /\ Len(out) > 1
    /\ out[1].kind = "copy"
    /\ \E n \in 1..Len(out) :
          /\ Len(out) = 1 + 2 * n
          /\ SubSeq(out, 2, n + 1) = SubSeq(out, n + 2, Len(out))

(***************************************************************************)
(* The cell manager of the Keccak circuit (CellManager).                   *)
(***************************************************************************)
MaxHeight == 2
MaxCalls == 4
\* let mut best_row_pos = 100000usize
BestRowPosInit == 100000

\* the row_idx arguments the callers pass: the rows, and one on either side
RowArgs == (0 - 1)..MaxHeight

\* CellManager::new(height)
InitCells ==
    /\ cm_height \in 1..MaxHeight
    /\ cm_columns = 0
    /\ cm_rows = [i \in 1..cm_height |-> 0]
    /\ cm_num_unused_cells = 0
    /\ cm_status = "running"
    /\ cm_cells = <<>>
    /\ cm_calls = 0
    /\ RecorderAtRest
    /\ GatesAtRest
    /\ ScopingAtRest

CanCall == cm_status = "running" /\ cm_calls < MaxCalls
Called == cm_calls' = cm_calls + 1
NotCells == UNCHANGED recVars /\ UNCHANGED gateVars /\ UNCHANGED scopeVars

\* the loop of get_position: the row kept so far and its counter
RECURSIVE BestRowLastOfSmallest(_, _, _, _)
BestRowLastOfSmallest(rows, i, best_row_idx, best_row_pos) ==
    IF i > Len(rows) THEN <<best_row_idx, best_row_pos>>
    ELSE IF rows[i] <= best_row_pos
         THEN BestRowLastOfSmallest(rows, i + 1, i - 1, rows[i])
         ELSE BestRowLastOfSmallest(rows, i + 1, best_row_idx, best_row_pos)
RECURSIVE BestRow(_, _, _, _)
BestRow(rows, i, best_row_idx, best_row_pos) ==
    IF i > Len(rows) THEN <<best_row_idx, best_row_pos>>
    ELSE IF rows[i] < best_row_pos
         THEN BestRow(rows, i + 1, i - 1, rows[i])
         ELSE BestRow(rows, i + 1, best_row_idx, best_row_pos)

\* a get_position that keeps the last of the rows with the smallest counter
get_position_last(rows) == BestRowLastOfSmallest(rows, 1, 0, BestRowPosInit)
\* fn get_position: (best_row_idx, best_row_pos), before the counter is advanced
get_position(rows) == BestRow(rows, 1, 0, BestRowPosInit)

\* fn query_cell_at_pos: a column is created when column_idx is not one of columns
query_cell_at_pos(columns, column_idx) ==
    IF column_idx < columns THEN columns ELSE columns + 1

\* fn get_width: the largest counter
get_width(rows) == CHOOSE w \in {rows[i] : i \in 1..Len(rows)} : \A i \in 1..Len(rows) : rows[i] <= w

RECURSIVE SumSeq(_)
SumSeq(q) == IF q = <<>> THEN 0 ELSE Head(q) + SumSeq(Tail(q))

\* an index out of bounds: the process panics and the manager is left as it was
CellPanic ==
    /\ cm_status' = "panicked"
    /\ UNCHANGED <<cm_height, cm_columns, cm_rows, cm_num_unused_cells, cm_cells>>

\* fn query_cell
query_cell ==
    /\ CanCall
    /\ LET pos == get_position(cm_rows)
       IN  /\ cm_rows' = [cm_rows EXCEPT ![pos[1] + 1] = @ + 1]
           /\ cm_columns' = query_cell_at_pos(cm_columns, pos[2])
           /\ cm_cells' = Append(cm_cells, pos)
    /\ Called
    /\ UNCHANGED <<cm_height, cm_num_unused_cells, cm_status>>
    /\ NotCells

\* fn query_cell_value
query_cell_value ==
    /\ CanCall
    /\ LET pos == get_position(cm_rows)
       IN  /\ cm_rows' = [cm_rows EXCEPT ![pos[1] + 1] = @ + 1]
           /\ cm_cells' = Append(cm_cells, pos)
    /\ Called
    /\ UNCHANGED <<cm_height, cm_columns, cm_num_unused_cells, cm_status>>
    /\ NotCells

\* fn query_cell_at_row: row_idx as usize indexes self.rows
query_cell_at_row ==
    /\ CanCall
    /\ \E row_idx \in RowArgs :
          IF row_idx < 0 \/ row_idx >= Len(cm_rows)
          THEN CellPanic
          ELSE LET column_idx == cm_rows[row_idx + 1]
               IN  /\ cm_rows' = [cm_rows EXCEPT ![row_idx + 1] = @ + 1]
                   /\ cm_columns' = query_cell_at_pos(cm_columns, column_idx)
                   /\ cm_cells' = Append(cm_cells, <<row_idx, column_idx>>)
                   /\ UNCHANGED <<cm_height, cm_num_unused_cells, cm_status>>
    /\ Called
    /\ NotCells

\* fn query_cell_value_at_row
query_cell_value_at_row ==
    /\ CanCall
    /\ \E row_idx \in RowArgs :
          IF row_idx < 0 \/ row_idx >= Len(cm_rows)
          THEN CellPanic
          ELSE LET column_idx == cm_rows[row_idx + 1]
               IN  /\ cm_rows' = [cm_rows EXCEPT ![row_idx + 1] = @ + 1]
                   /\ cm_cells' = Append(cm_cells, <<row_idx, column_idx>>)
                   /\ UNCHANGED <<cm_height, cm_columns, cm_num_unused_cells, cm_status>>
    /\ Called
    /\ NotCells

\* fn start_region
start_region ==
    /\ CanCall
    /\ LET width == get_width(cm_rows)
       IN  /\ cm_num_unused_cells' =
                 cm_num_unused_cells + SumSeq([i \in 1..Len(cm_rows) |-> width - cm_rows[i]])
           /\ cm_rows' = [i \in 1..Len(cm_rows) |-> width]
    /\ Called
    /\ UNCHANGED <<cm_height, cm_columns, cm_status, cm_cells>>
    /\ NotCells

NextCells ==
    \/ query_cell
    \/ query_cell_value
    \/ query_cell_at_row
    \/ query_cell_value_at_row
    \/ start_region
SpecCells == InitCells /\ [][NextCells]_vars

\* no position was handed out twice
NoCellTwice ==
    \A i, j \in 1..Len(cm_cells) : i # j => cm_cells[i] # cm_cells[j]
\* the cell just handed out is in the lowest-indexed row among those with the
\* smallest counter, at the column that counter gave
LowestOfSmallest ==
    LET cell == cm_cells'[Len(cm_cells')]
        r == cell[1] + 1
    IN  /\ Len(cm_cells') = Len(cm_cells) + 1
        /\ r \in 1..Len(cm_rows)
        /\ \A i \in 1..Len(cm_rows) : cm_rows[r] <= cm_rows[i]
        /\ \A i \in 1..(r - 1) : cm_rows[r] < cm_rows[i]
        /\ cell[2] = cm_rows[r]
\* every counter is the width of before, and the skipped cells are counted
RegionStarted ==
    /\ \A i \in 1..Len(cm_rows) :
          /\ \A k \in 1..Len(cm_rows) : cm_rows'[i] >= cm_rows[k]
          /\ \E k \in 1..Len(cm_rows) : cm_rows'[i] = cm_rows[k]
    /\ Len(cm_rows') = Len(cm_rows)
    /\ cm_num_unused_cells' - cm_num_unused_cells
          = SumSeq([i \in 1..Len(cm_rows) |-> cm_rows'[i] - cm_rows[i]])

\* C18: in a CellManager of height >= 1 no (row index, column index) position is
\* handed out twice; query_cell hands out the lowest-indexed row among those with
\* the smallest counter; start_region sets every counter to the width of before
\* and adds the number of skipped cells to num_unused_cells.
C18_CellManager ==
    /\ []NoCellTwice
    /\ [][/\ (query_cell \/ query_cell_value) => LowestOfSmallest
          /\ start_region => RegionStarted]_vars

\* a cell of row 0, a region started with row 1 one cell short, and the next cell
\* again in row 0, one column further
C18_Witness ==
    /\ cm_height = 2
    /\ cm_cells = <<<<0, 0>>, <<0, 1>>>>
    /\ cm_rows = <<2, 1>>
    /\ cm_num_unused_cells = 1

====
